---- MODULE Spec2Model ----
\* A model of lunatic's lua_function.hpp: typed bindings that call named Lua
\* globals through the Lua stack (push_argument / pop_argument /
\* lua_function<...>::operator() / call_lua_func).
\*
\* Conventions
\*   - a Lua value is a pair <<type, payload>>; a Lua string and a std::string are
\*     sequences of character codes, 0 being the NUL character;
\*   - Lua numbers are integer-valued and lie inside the range of int, so the
\*     narrowing int(lua_Integer) of pop_argument<int> is the identity on them;
\*   - assert() is modelled as compiled in (NDEBUG not defined): a failed
\*     assertion aborts the process (pc = "Aborted", a terminal state);
\*   - undefined behaviour is a choice among its outcomes: the invocation
\*     dies there (pc = "Aborted") or carries on with an arbitrary value.
EXTENDS Integers, Sequences, FiniteSets, TLC

VARIABLES
    stack,      \* the Lua stack of the shared lua_State (bottom first)
    name,       \* lua_function_base::name of every binding
    pc,         \* position of the running invocation
    self,       \* the binding whose operator() is running (0: none)
    args,       \* the arguments operator() was invoked with
    todo,       \* single-value pushes still to be made
    call_ret,   \* status returned by lua_pcall in call_lua_func
    ret,        \* host values decoded so far by pop_argument(s)
    result,     \* what the caller received from the last invocation
    num_args,   \* the num_args parameter handed to call_lua_func
    callee_ret, \* the values the Lua callee returned (before adjustment)
    ops,        \* Lua API operations issued by the running invocation
    depth0      \* stack depth before the first invocation

vars ==
    <<stack, name, pc, self, args, todo, call_ret, ret, result, num_args,
      callee_ret, ops, depth0>>

\* ------------------------------------------------------------------ bounds
MaxArgs == 3
MaxRets == 3

\* ------------------------------------------------------------- Lua values
NUL == 0
LUA_OK == 0
LUA_ERRRUN == 2

\* A Lua value: <<type name, payload>>.
LNil == <<"nil", 0>>
LBool(b) == <<"boolean", b>>
LNum(n) == <<"number", n>>
LStr(s) == <<"string", s>>
LFun(f) == <<"function", f>>

\* Host (C++) values of the supported primitive types.
HBool(b) == <<"bool", b>>
HInt(n) == <<"int", n>>
HFloat(n) == <<"float", n>>
HDouble(n) == <<"double", n>>
HString(s) == <<"string", s>>

\* Type tag and payload of a Lua value or a host value.
TypeOf(x) == x[1]
ValOf(x) == x[2]

\* The bytes a reader of a const char* sees: up to the first NUL.
RECURSIVE c_str(_)
c_str(s) ==
    IF s = <<>> \/ Head(s) = NUL THEN <<>> ELSE <<Head(s)>> \o c_str(Tail(s))

\* Absolute position of an acceptable index (negative: relative to the top).
AbsIndex(st, index) == IF index < 0 THEN Len(st) + index + 1 ELSE index

Slot(st, index) ==
    IF AbsIndex(st, index) \in 1..Len(st) THEN st[AbsIndex(st, index)] ELSE LNil

\* Decimal digits of a natural number, as character codes.
RECURSIVE Digits(_)
Digits(n) ==
    IF n < 10 THEN <<48 + n>> ELSE Digits(n \div 10) \o <<48 + (n % 10)>>

\* lua_tostring's number-to-string conversion (integer-valued numbers).
NumToStr(n) == IF n < 0 THEN <<45>> \o Digits(0 - n) ELSE Digits(n)

IsDigit(c) == c \in 48..57

RECURSIVE DigitsValue(_, _)
DigitsValue(s, acc) ==
    IF s = <<>> THEN acc ELSE DigitsValue(Tail(s), 10 * acc + (Head(s) - 48))

\* Lua's string-to-number coercion on the whole string (decimal integers).
IsNumeral(s) ==
    LET body == IF s # <<>> /\ Head(s) = 45 THEN Tail(s) ELSE s
    IN  body # <<>> /\ \A i \in 1..Len(body) : IsDigit(body[i])

StrToNum(s) ==
    IF s # <<>> /\ Head(s) = 45 THEN 0 - DigitsValue(Tail(s), 0)
    ELSE DigitsValue(s, 0)

\* lua_tonumber / lua_tointeger: the number, a numeral string's value, else 0.
lua_tonumber(v) ==
    CASE TypeOf(v) = "number" -> ValOf(v)
      [] TypeOf(v) = "string" -> IF IsNumeral(ValOf(v)) THEN StrToNum(ValOf(v)) ELSE 0
      [] OTHER -> 0

\* lua_toboolean: false for nil and false, true for everything else.
lua_toboolean(v) ==
    CASE TypeOf(v) = "nil" -> FALSE
      [] TypeOf(v) = "boolean" -> ValOf(v)
      [] OTHER -> TRUE

\* Nearest single-precision value of an integer-valued double (ties to even).
RECURSIVE FloatUlp(_, _)
FloatUlp(mag, q) == IF mag < (2^24) * q THEN q ELSE FloatUlp(mag, 2 * q)

float_of(x) ==
    LET mag == IF x < 0 THEN 0 - x ELSE x
        q == FloatUlp(mag, 1)
        r == mag % q
        lo == mag - r
        up == (2 * r > q) \/ (2 * r = q /\ (lo \div q) % 2 = 1)
        m == IF up THEN lo + q ELSE lo
    IN  IF x < 0 THEN 0 - m ELSE m

\* -------------------------------------------------------- Value Encoder
\* push_argument<T>(L, arg): exactly one push per host value.
push_argument_bool(st, arg) == Append(st, LBool((IF arg THEN 1 ELSE 0) # 0))

push_argument_int(st, arg) == Append(st, LNum(arg))

push_argument_float(st, arg) == Append(st, LNum(arg))

push_argument_double(st, arg) == Append(st, LNum(arg))

\* lua_pushstring reads the pointer returned by c_str() up to the first NUL.
push_argument_string(st, arg) == Append(st, LStr(c_str(arg)))

push_argument(st, arg) ==
    CASE TypeOf(arg) = "bool" -> push_argument_bool(st, ValOf(arg))
      [] TypeOf(arg) = "int" -> push_argument_int(st, ValOf(arg))
      [] TypeOf(arg) = "float" -> push_argument_float(st, ValOf(arg))
      [] TypeOf(arg) = "double" -> push_argument_double(st, ValOf(arg))
      [] TypeOf(arg) = "string" -> push_argument_string(st, ValOf(arg))

\* push_argument(L, first, args...): the single pushes it makes, in order.
RECURSIVE push_argument_variadic(_)
push_argument_variadic(as) ==
    IF Len(as) = 1 THEN <<as[1]>>
    ELSE <<Head(as)>> \o push_argument_variadic(Tail(as))

\* -------------------------------------------------------- Value Decoder
\* A decode yields a set of outcomes [ok, val, st]: ok = FALSE is a crash,
\* st is the stack after the read (lua_tostring rewrites a number slot).
Decoded(val, st) == [ok |-> TRUE, val |-> val, st |-> st]

pop_argument_bool(st, index) ==
    {Decoded(HBool(lua_toboolean(Slot(st, index))), st)}

pop_argument_int(st, index) ==
    {Decoded(HInt(lua_tonumber(Slot(st, index))), st)}

pop_argument_float(st, index) ==
    {Decoded(HFloat(float_of(lua_tonumber(Slot(st, index)))), st)}

pop_argument_double(st, index) ==
    {Decoded(HDouble(lua_tonumber(Slot(st, index))), st)}

\* Strings a read through a null pointer may appear to produce.
GarbageStrings == {<<>>, <<97>>}

\* lua_tostring returns NULL unless the slot is a string or a number;
\* std::string(const char*) reads up to the first NUL, and constructing it
\* from NULL is undefined: a crash (or a thrown logic_error), or any string.
pop_argument_string(st, index) ==
    LET v == Slot(st, index)
    IN  CASE TypeOf(v) = "string" -> {Decoded(HString(c_str(ValOf(v))), st)}
          [] TypeOf(v) = "number" ->
                {Decoded(HString(NumToStr(ValOf(v))),
                         [st EXCEPT ![AbsIndex(st, index)] = LStr(NumToStr(ValOf(v)))])}
          [] OTHER ->
                {[ok |-> FALSE, val |-> HString(<<>>), st |-> st]}
                \cup {Decoded(HString(g), st) : g \in GarbageStrings}

pop_argument(ty, st, index) ==
    CASE ty = "bool" -> pop_argument_bool(st, index)
      [] ty = "int" -> pop_argument_int(st, index)
      [] ty = "float" -> pop_argument_float(st, index)
      [] ty = "double" -> pop_argument_double(st, index)
      [] ty = "string" -> pop_argument_string(st, index)

\* Mutant: the recursion does not advance the index.
pop_arguments_index_stuck(index, i) == index

\* pop_arguments<Ret1, Ret2, RetN...>(L, index): the i-th declared type is
\* read at index + (i - 1).
pop_arguments_index(index, i) == index + (i - 1)

\* ------------------------------------------------------------ the runtime
\* The global namespace of the Lua state the bindings are constructed against.
Globals(n) ==
    CASE n = "f" -> LFun("opaque")
      [] n = "echo" -> LFun("echo")
      [] n = "bad" -> LNum(5)
      [] OTHER -> LNil

lua_getglobal(st, n) == Append(st, Globals(n))

lua_isfunction(st, index) == TypeOf(Slot(st, index)) = "function"

lua_pop(st, n) == SubSeq(st, 1, Len(st) - n)

\* All sequences over S of length at most n.
SeqsUpTo(S, n) == UNION {[1..k -> S] : k \in 0..n}

\* Values an opaque callee may return.
RetVals == {LNil, LNum(5), LStr(<<97, NUL, 98>>)}
RetLists == SeqsUpTo(RetVals, MaxRets)
ErrorMessage == LStr(<<101>>)

\* What a called value may do with its arguments: [status, vals].
CalleeOutcomes(fn, argv) ==
    CASE TypeOf(fn) # "function" ->
            {[status |-> LUA_ERRRUN, vals |-> <<ErrorMessage>>]}
      [] TypeOf(fn) = "function" /\ ValOf(fn) = "echo" ->
            {[status |-> LUA_OK, vals |-> argv]}
      [] OTHER ->
            {[status |-> LUA_OK, vals |-> rs] : rs \in RetLists}
            \cup {[status |-> LUA_ERRRUN, vals |-> <<ErrorMessage>>]}

\* Results adjusted to nresults: extra values dropped, missing ones nil.
Adjust(rs, n) == [i \in 1..n |-> IF i <= Len(rs) THEN rs[i] ELSE LNil]

\* lua_pcall(L, nargs, nresults, 0): removes the function and its arguments;
\* on success pushes nresults results, on failure pushes the error message.
lua_pcall(st, nargs, nresults) ==
    LET fpos == Len(st) - nargs
        below == SubSeq(st, 1, fpos - 1)
        argv == SubSeq(st, fpos + 1, Len(st))
    IN  {[status |-> o.status,
          returned |-> o.vals,
          st |-> below \o (IF o.status = LUA_OK THEN Adjust(o.vals, nresults)
                           ELSE o.vals)] : o \in CalleeOutcomes(st[fpos], argv)}

\* ------------------------------------------------------------- bindings
\* The lua_function objects the embedder constructed on the shared state:
\* the name given to the constructor and the declared result types
\* (<<>> stands for lua_function<void>).
BindingDefs ==
    << [name |-> "f", Ret |-> <<>>],
       [name |-> "f", Ret |-> <<"int">>],
       [name |-> "f", Ret |-> <<"string">>],
       [name |-> "f", Ret |-> <<"bool", "double">>],
       [name |-> "f", Ret |-> <<"int", "string", "float">>],
       [name |-> "echo", Ret |-> <<"string", "int", "bool">>],
       [name |-> "echo", Ret |-> <<>>],
       [name |-> "bad", Ret |-> <<"int">>],
       [name |-> "missing", Ret |-> <<>>] >>

Bindings == 1..Len(BindingDefs)

Ret(b) == BindingDefs[b].Ret

\* Values the embedder passes as arguments.
ArgVals == {HBool(TRUE), HInt(0 - 3), HString(<<97, NUL, 98>>)}
ArgLists == SeqsUpTo(ArgVals, MaxArgs)

NoResult == [kind |-> "none", vals |-> <<>>]

Init ==
    /\ stack \in {<<>>, <<LNum(7)>>}
    /\ name = [b \in Bindings |-> BindingDefs[b].name]
    /\ pc = "Idle"
    /\ self = 0
    /\ args = <<>>
    /\ todo = <<>>
    /\ call_ret = 0
    /\ ret = <<>>
    /\ result = NoResult
    /\ num_args = 0
    /\ callee_ret = <<>>
    /\ ops = <<>>
    /\ depth0 = Len(stack)

\* Mutant: the assertion accepts whatever the name resolved to.
ResolvedCallable_unchecked(st) == TRUE

\* assert(lua_isfunction(state, -1))
ResolvedCallable(st) == lua_isfunction(st, 0 - 1)

\* lua_function_base::get_global_function, entered from operator() of
\* binding b with the single pushes `pushes` ahead and `n` for call_lua_func.
get_global_function(b, as, pushes, n) ==
    /\ pc = "Idle"
    /\ stack' = lua_getglobal(stack, name[b])
    /\ ops' = <<<<"getglobal", name[b]>>>>
    /\ self' = b
    /\ args' = as
    /\ result' = NoResult
    /\ ret' = <<>>
    /\ call_ret' = 0
    /\ callee_ret' = <<>>
    /\ IF ResolvedCallable(stack')
       THEN pc' = "NameResolved" /\ todo' = pushes /\ num_args' = n
       ELSE pc' = "Aborted" /\ todo' = <<>> /\ num_args' = 0
    /\ UNCHANGED <<name, depth0>>

\* The num_args each overload hands to call_lua_func.
NumArgsNone == 0

\* Mutant: the one-argument overload announces no argument.
NumArgsOne_none == 1 - 1

NumArgsOne == 1

\* Mutant: the first argument is left out of the count.
NumArgsMany_without_first(rest) == Len(rest)

NumArgsMany(rest) == Len(rest) + 1

\* operator()(): no argument.
Call0(b) == get_global_function(b, <<>>, <<>>, NumArgsNone)

\* Mutant: the argument is pushed before the name is resolved.
Call1_push_first(b, arg) ==
    /\ pc = "Idle"
    /\ stack' = lua_getglobal(push_argument(stack, arg), name[b])
    /\ ops' = << <<"push", push_argument(stack, arg)[Len(stack) + 1]>>,
                 <<"getglobal", name[b]>> >>
    /\ self' = b
    /\ args' = <<arg>>
    /\ result' = NoResult
    /\ ret' = <<>>
    /\ call_ret' = 0
    /\ callee_ret' = <<>>
    /\ pc' = "NameResolved"
    /\ todo' = <<>>
    /\ num_args' = NumArgsOne
    /\ UNCHANGED <<name, depth0>>

\* operator()(T arg): one argument.
Call1(b, arg) == get_global_function(b, <<arg>>, <<arg>>, NumArgsOne)

\* operator()(T first, Args&&... args): first, then the rest.
CallN(b, first, rest) ==
    get_global_function(b, <<first>> \o rest,
                        <<first>> \o push_argument_variadic(rest),
                        NumArgsMany(rest))

\* One push_argument<T>(state, arg) of the running operator().
PushArgument ==
    /\ pc = "NameResolved"
    /\ todo # <<>>
    /\ stack' = push_argument(stack, Head(todo))
    /\ ops' = Append(ops, <<"push", stack'[Len(stack')]>>)
    /\ todo' = Tail(todo)
    /\ UNCHANGED <<name, pc, self, args, call_ret, ret, result, num_args,
                   callee_ret, depth0>>

\* Number of results call_lua_func requests for a declared result list.
num_ret_values(R) == Len(R)

\* Mutant: the status of the protected call is not looked at.
CallSucceeded_unchecked(status) == TRUE

\* assert(call_ret == 0)
CallSucceeded(status) == status = 0

\* call_lua_func, first half: lua_pcall and the assertion on its status.
Pcall ==
    /\ pc = "NameResolved"
    /\ todo = <<>>
    /\ \E o \in lua_pcall(stack, num_args, num_ret_values(Ret(self))) :
          /\ stack' = o.st
          /\ call_ret' = o.status
          /\ callee_ret' = o.returned
          /\ pc' = IF CallSucceeded(o.status) THEN "Called" ELSE "Aborted"
    /\ ops' = Append(ops, <<"pcall", num_args, num_ret_values(Ret(self))>>)
    /\ UNCHANGED <<name, self, args, todo, ret, result, num_args, depth0>>

\* Index handed to pop_argument / pop_arguments for the first result.
FirstResultIndex(R) == 0 - num_ret_values(R)

\* One pop_argument<T>(state, index) of call_lua_func.
ReadResult ==
    /\ pc = "Called"
    /\ Len(ret) < Len(Ret(self))
    /\ LET i == Len(ret) + 1
           index == pop_arguments_index(FirstResultIndex(Ret(self)), i)
       IN  /\ ops' = Append(ops, <<"read", index, Ret(self)[i]>>)
           /\ \E o \in pop_argument(Ret(self)[i], stack, index) :
                 /\ stack' = o.st
                 /\ IF o.ok
                    THEN pc' = "Called" /\ ret' = Append(ret, o.val)
                    ELSE pc' = "Aborted" /\ ret' = ret
    /\ UNCHANGED <<name, self, args, todo, call_ret, result, num_args,
                   callee_ret, depth0>>

\* Mutant: the decoded results are left on the stack.
PopCount_none(R) == 0

\* Number of slots call_lua_func pops once the results are decoded.
PopCount(R) == num_ret_values(R)

\* call_lua_func, last step: lua_pop of the results (none for <void>).
FinishCall ==
    /\ pc = "Called"
    /\ Len(ret) = Len(Ret(self))
    /\ IF Ret(self) = <<>>
       THEN UNCHANGED <<stack, ops>>
       ELSE /\ stack' = lua_pop(stack, PopCount(Ret(self)))
            /\ ops' = Append(ops, <<"pop", PopCount(Ret(self))>>)
    /\ pc' = "ResultsDecoded"
    /\ UNCHANGED <<name, self, args, todo, call_ret, ret, result, num_args,
                   callee_ret, depth0>>

\* What operator() hands back: nothing, the value, or the tuple.
ResultOf(R, vals) ==
    [kind |-> CASE Len(R) = 0 -> "void" [] Len(R) = 1 -> "value" [] OTHER -> "tuple",
     vals |-> vals]

\* operator() returns to the caller; its locals are gone.
Return ==
    /\ pc = "ResultsDecoded"
    /\ result' = ResultOf(Ret(self), ret)
    /\ pc' = "Idle"
    /\ self' = 0
    /\ args' = <<>>
    /\ todo' = <<>>
    /\ call_ret' = 0
    /\ ret' = <<>>
    /\ num_args' = 0
    /\ callee_ret' = <<>>
    /\ ops' = <<>>
    /\ UNCHANGED <<stack, name, depth0>>

\* The embedder invokes a binding; the argument count selects the overload.
Invoke0 == pc = "Idle" /\ \E b \in Bindings : Call0(b)

Invoke1 == pc = "Idle" /\ \E b \in Bindings, arg \in ArgVals : Call1(b, arg)

InvokeN ==
    /\ pc = "Idle"
    /\ \E b \in Bindings, as \in ArgLists :
          Len(as) >= 2 /\ CallN(b, Head(as), Tail(as))

Next ==
    \/ Invoke0
    \/ Invoke1
    \/ InvokeN
    \/ PushArgument
    \/ Pcall
    \/ ReadResult
    \/ FinishCall
    \/ Return

Spec == Init /\ [][Next]_vars

\* ------------------------------------------------- encoder/decoder alone
\* push_argument<T> followed by pop_argument<T> on the top slot, for host
\* values drawn from CodecVals.
MaxStrLen == 3
CodecChars == {NUL, 53, 97}
CodecNumbers == {0 - 3, 0, 5, 2^24 + 1}
CodecVals ==
    {HBool(b) : b \in BOOLEAN}
    \cup {HInt(n) : n \in CodecNumbers}
    \cup {HFloat(float_of(n)) : n \in CodecNumbers}
    \cup {HDouble(n) : n \in CodecNumbers}
    \cup {HString(s) : s \in SeqsUpTo(CodecChars, MaxStrLen)}

CodecPush ==
    /\ pc = "Idle"
    /\ \E v \in CodecVals :
          /\ args' = <<v>>
          /\ stack' = push_argument(stack, v)
    /\ pc' = "Pushed"
    /\ UNCHANGED <<name, self, todo, call_ret, ret, result, num_args,
                   callee_ret, ops, depth0>>

CodecPop ==
    /\ pc = "Pushed"
    /\ \E o \in pop_argument(TypeOf(args[1]), stack, 0 - 1) :
          /\ stack' = o.st
          /\ IF o.ok
             THEN pc' = "Read" /\ ret' = <<o.val>>
             ELSE pc' = "Aborted" /\ ret' = ret
    /\ UNCHANGED <<name, self, args, todo, call_ret, result, num_args,
                   callee_ret, ops, depth0>>

CodecNext == CodecPush \/ CodecPop

SpecCodec == Init /\ [][CodecNext]_vars

\* ============================================================ properties
Last(q) == q[Len(q)]

IsPrefix(p, q) == Len(p) <= Len(q) /\ SubSeq(q, 1, Len(p)) = p

\* The call step: every push made, lua_pcall about to be issued.
AtCallStep == pc = "NameResolved" /\ todo = <<>>

\* C1: after any sequence of successful invocations of bindings sharing the
\* stack, whatever the result shape and the argument count, the stack depth
\* is the depth before the first invocation (a completed call_lua_func has
\* already restored it).
C1_StackBalanced ==
    pc \in {"Idle", "ResultsDecoded"} => Len(stack) = depth0

C1_Witness ==
    /\ pc = "Idle"
    /\ result.kind = "tuple"
    /\ Len(result.vals) = 3
    /\ depth0 = 1
    /\ Len(stack) = depth0

\* The Lua value that holds a host value unchanged.
LuaImage(h) ==
    CASE TypeOf(h) = "bool" -> LBool(ValOf(h))
      [] TypeOf(h) = "string" -> LStr(ValOf(h))
      [] OTHER -> LNum(ValOf(h))

TypesOf(hs) == [i \in 1..Len(hs) |-> TypeOf(hs[i])]

\* C2: at the call step the slot directly above the callee holds a1 and the
\* top slot holds aK, and a callee that returns its arguments unchanged,
\* invoked with (a, b, c), yields the tuple (a, b, c).
C2_ArgumentOrder ==
    /\ AtCallStep =>
          \A i \in 1..Len(args) :
              stack[Len(stack) - Len(args) + i] = LuaImage(args[i])
    /\ (/\ pc = "ResultsDecoded"
        /\ name[self] = "echo"
        /\ Len(args) = 3
        /\ Ret(self) = TypesOf(args)) => ret = args

\* Host values a slot holding v may decode to as type ty.
DecodedValues(ty, v) ==
    {o.val : o \in {x \in pop_argument(ty, <<v>>, 0 - 1) : x.ok}}

ReadOps == SelectSeq(ops, LAMBDA o : o[1] = "read")

\* C3: with N >= 2 declared result types, decoding starts N slots below the
\* top and the i-th tuple element is decoded, as the i-th declared type, from
\* the i-th value the callee returned (nil where it returned fewer).
C3_ResultOrder ==
    (pc = "ResultsDecoded" /\ Len(Ret(self)) >= 2) =>
        LET N == Len(Ret(self))
        IN  /\ Len(ret) = N
            /\ Len(ReadOps) = N
            /\ \A i \in 1..N :
                  /\ ReadOps[i] = <<"read", (0 - N) + (i - 1), Ret(self)[i]>>
                  /\ ret[i] \in DecodedValues(Ret(self)[i], Adjust(callee_ret, N)[i])

C3_Witness ==
    /\ pc = "ResultsDecoded"
    /\ Ret(self) = <<"int", "string", "float">>
    /\ callee_ret = <<LNum(5), LStr(<<97, NUL, 98>>), LNil>>
    /\ ret = <<HInt(5), HString(<<97>>), HFloat(0)>>

NotCallable(b) == TypeOf(Globals(name[b])) # "function"

\* C4: when the bound name resolves to a non-callable value or to no value,
\* the invocation stops at the name resolution: nothing but the lookup was
\* issued (no push, no protected call) and the caller receives no result.
C4_NotCallableAborts ==
    (self # 0 /\ NotCallable(self)) =>
        /\ pc = "Aborted"
        /\ ops = <<<<"getglobal", name[self]>>>>
        /\ result = NoResult

C4_Witness ==
    /\ pc = "Aborted"
    /\ self # 0
    /\ name[self] = "missing"
    /\ args # <<>>

\* C5: a nonzero status of the protected call is fatal in every result shape:
\* the invocation stops right after the call, no result slot is read or
\* popped and the caller receives no result.
C5_CallFailureFatal ==
    call_ret # 0 =>
        /\ pc = "Aborted"
        /\ Last(ops)[1] = "pcall"
        /\ ret = <<>>
        /\ result = NoResult

C5_Witness ==
    /\ pc = "Aborted"
    /\ call_ret # 0
    /\ Len(Ret(self)) >= 2
    /\ Len(args) = 2

\* C6: for every boolean, integer and string v (any characters a std::string
\* can hold), push_argument(v) then pop_argument of the same type on the top
\* slot gives back exactly v.
C6_RoundTrip ==
    (pc = "Read" /\ TypeOf(args[1]) \in {"bool", "int", "string"}) =>
        ret = <<args[1]>>

\* The empty/zero value of a host type.
Zero(ty) ==
    CASE ty = "bool" -> HBool(FALSE)
      [] ty = "int" -> HInt(0)
      [] ty = "float" -> HFloat(0)
      [] ty = "double" -> HDouble(0)
      [] ty = "string" -> HString(<<>>)

\* C7: decoding a nil slot never fails, for any supported type, and yields
\* the empty/zero value of the requested type.
C7_NilDecodesZero ==
    (/\ ops # <<>>
     /\ Last(ops)[1] = "read"
     /\ TypeOf(Slot(stack, Last(ops)[2])) = "nil") =>
        /\ pc # "Aborted"
        /\ ret # <<>>
        /\ Last(ret) = Zero(Last(ops)[3])

\* C8: the protected call is issued with num_args = K and num_results = N
\* (the number of declared result types), and at the call step exactly K
\* values lie above the resolved callee, one push per argument.
C8_CallArity ==
    /\ AtCallStep =>
          /\ num_args = Len(args)
          /\ Len(stack) = depth0 + 1 + Len(args)
          /\ stack[depth0 + 1] = Globals(name[self])
          /\ Len(SelectSeq(ops, LAMBDA o : o[1] = "push")) = Len(args)
    /\ \A i \in 1..Len(ops) :
          ops[i][1] = "pcall" =>
              ops[i] = <<"pcall", Len(args), Len(Ret(self))>>

C8_Witness ==
    /\ ops # <<>>
    /\ Last(ops) = <<"pcall", 3, 2>>
    /\ callee_ret = <<LNil>>

OpRank(o) ==
    CASE o[1] = "getglobal" -> 0
      [] o[1] = "push" -> 1
      [] o[1] = "pcall" -> 2
      [] o[1] = "read" -> 3
      [] o[1] = "pop" -> 4

\* One lookup first, then pushes, then one protected call, then reads, then
\* one pop.
OpsInOrder(q) ==
    /\ q # <<>> => OpRank(q[1]) = 0
    /\ \A i \in 1..Len(q), j \in 1..Len(q) :
          i < j =>
              /\ OpRank(q[i]) <= OpRank(q[j])
              /\ OpRank(q[i]) \in {0, 2, 4} => OpRank(q[i]) < OpRank(q[j])

PhaseEdges ==
    { <<"Idle", "NameResolved">>, <<"NameResolved", "Called">>,
      <<"Called", "ResultsDecoded">>, <<"ResultsDecoded", "Idle">>,
      <<"Idle", "Aborted">>, <<"NameResolved", "Aborted">>,
      <<"Called", "Aborted">> }

\* C9: every invocation runs Idle -> NameResolved -> (arguments pushed) ->
\* Called -> ResultsDecoded -> Idle or stops at a fatal step; the name is
\* resolved once before any push, all pushes precede the one protected call,
\* all reads follow it and precede the pop; an invocation starts with nothing
\* kept from earlier ones, and no step changes a bound name.
C9_CallSequence ==
    [][ /\ pc' # pc => <<pc, pc'>> \in PhaseEdges
        /\ OpsInOrder(ops')
        /\ (pc = "NameResolved" /\ pc' = "Called") =>
              /\ todo = <<>>
              /\ Len(ops) = 1 + Len(args)
        /\ (pc = "Called" /\ pc' = "ResultsDecoded") => Len(ret) = Len(Ret(self))
        /\ (pc = "Idle" /\ pc' # "Idle") =>
              /\ Len(ops') = 1
              /\ ret' = <<>>
              /\ call_ret' = 0
              /\ callee_ret' = <<>>
              /\ result' = NoResult
        /\ name' = name ]_vars

C9_Witness ==
    /\ pc = "ResultsDecoded"
    /\ Len(args) = 2
    /\ Len(ops) = 7
    /\ OpsInOrder(ops)

\* The operations an invocation of binding b with arguments as issues when
\* it is one operation parameterised by K = Len(as).
ExpectedOps(b, as) ==
    LET N == Len(Ret(b))
    IN  <<<<"getglobal", name[b]>>>>
        \o [i \in 1..Len(as) |-> <<"push", Last(push_argument(<<>>, as[i]))>>]
        \o <<<<"pcall", Len(as), N>>>>
        \o [i \in 1..N |-> <<"read", (0 - N) + (i - 1), Ret(b)[i]>>]
        \o (IF N = 0 THEN <<>> ELSE <<<<"pop", N>>>>)

\* C10: the zero-, one- and many-argument overloads are one operation
\* parameterised by K: each issues the lookup, the pushes of its arguments in
\* order, the protected call with num_args = K and num_results = N, the reads
\* and the pop, in all three result shapes.
C10_UniformForms ==
    self # 0 =>
        /\ IsPrefix(ops, ExpectedOps(self, args))
        /\ pc = "ResultsDecoded" => ops = ExpectedOps(self, args)
        /\ AtCallStep => Len(ops) = 1 + Len(args)

C10_Witness ==
    /\ pc = "ResultsDecoded"
    /\ Len(args) = 1
    /\ Len(Ret(self)) = 1
    /\ ops = ExpectedOps(self, args)

====
